---- MODULE Spec2Model ----
(***************************************************************************)
(* The watering decision engine of backend/app.py: the in-memory tracker   *)
(* dictionaries, the evaluation of a moisture reading against the          *)
(* automation rule and the watering profile, the per-cycle timer thread    *)
(* that closes the valve, the one-slot command queue polled by the device  *)
(* and the manual valve endpoint.                                          *)
(*                                                                         *)
(* Python dictionaries are functions whose DOMAIN is the set of keys       *)
(* present.  Time is time.time() in whole seconds.                         *)
(***************************************************************************)
EXTENDS Integers, Sequences, FiniteSets, Bags, TLC

----------------------------------------------------------------------------
(* Bounds of the model *)

Devices == {"D1"}

\* Seconds between the first instant of the model and the next local midnight.
SecondsToMidnight == 1

\* Number of one-second clock steps explored.
MaxTicks == 3

\* Most watering timer threads alive at once.
MaxThreads == 2

\* Most rows ever inserted into watering_profiles.
MaxProfiles == 3

\* Number of one-second clock steps explored between profile requests.
ProfileTicks == 1

\* Moisture percentages posted by the sensor (around and on the thresholds).
Moistures == {20, 30, 50, 70}

----------------------------------------------------------------------------
(* Program constants *)

DEFAULT_WICKING_WAIT_TIME == 3600

DEFAULT_WATERING_DURATION == 300

DEFAULT_MAX_DAILY_CYCLES == 4

\* Length of a calendar day, for datetime.fromtimestamp(t).date().
SecondsPerDay == 24 * 3600

StartTime == 20000 * SecondsPerDay - SecondsToMidnight

MaxTime == StartTime + MaxTicks

\* max_watering_per_day and similar optional columns: <<>> is None, <<n>> is n.
NoValue == <<>>

\* Python truthiness of an optional number: None and 0 are false.
Truthy(x) == x # NoValue /\ x[1] # 0

\* The built-in profile returned when the device has no watering_profiles row.
DefaultProfile ==
    [ name                 |-> "Default",
      watering_duration    |-> DEFAULT_WATERING_DURATION,
      wicking_wait_time    |-> DEFAULT_WICKING_WAIT_TIME,
      max_daily_cycles     |-> DEFAULT_MAX_DAILY_CYCLES,
      max_watering_per_day |-> NoValue ]

\* Rows a device may have in watering_profiles (create_watering_profile takes
\* any integers): a quick profile, and one whose wait is longer than the
\* built-in default wait.
StoredProfiles ==
    { [ name |-> "Quick", watering_duration |-> 2, wicking_wait_time |-> 2,
        max_daily_cycles |-> 1, max_watering_per_day |-> NoValue ],
      [ name |-> "Slow", watering_duration |-> 1,
        wicking_wait_time |-> DEFAULT_WICKING_WAIT_TIME + 1,
        max_daily_cycles |-> 2, max_watering_per_day |-> NoValue ] }

\* The rule that get_automation_rules returns when the device has no row in
\* automation_rules.
DefaultRule == [ enabled |-> 1, low_threshold |-> 30, high_threshold |-> 70 ]

\* Rows of automation_rules written by set_automation_rules.
RuleChoices ==
    { [ enabled |-> e, low_threshold |-> 30, high_threshold |-> 70 ] : e \in {0, 1} }
    \cup { [ enabled |-> 1, low_threshold |-> 70, high_threshold |-> 30 ] }

----------------------------------------------------------------------------
(* State *)

VARIABLES
    now,                  \* time.time()
    datetime_name,        \* what the module global `datetime` names
    watering_profiles,    \* table watering_profiles: device -> the active profile
                          \* that the evaluations are given
    automation_rules,     \* table automation_rules: device -> row
    moisture_data,        \* table moisture_data: device -> latest moisture
    last_watering_times,  \* dict
    daily_cycles,         \* dict
    last_cycle_reset,     \* dict
    manual_override,      \* dict
    device_commands,      \* dict: the pending command of each device
    threads,              \* bag of turn_off_valve timer threads
    step,                 \* the handler that ran last and what it printed and commanded
    history,              \* per device: the cycles opened, closed and counted so far
    profile_rows,         \* table watering_profiles: the sequence of all its rows
    device_profiles,      \* dict: the cache of get_device_profile
    calls                 \* the request handlers in flight, with their locals

tracker == <<last_watering_times, daily_cycles, last_cycle_reset, manual_override>>

store == <<watering_profiles, automation_rules, moisture_data>>

\* What only the handlers that are followed statement by statement change.
flight == <<profile_rows, device_profiles, calls>>

vars == <<now, datetime_name, store, tracker, device_commands, threads,
          step, history, flight>>

\* d[k] = v on a dict
DictSet(d, k, v) == [x \in DOMAIN d \cup {k} |-> IF x = k THEN v ELSE d[x]]

\* d.pop(k) / del d[k]
DictDel(d, k) == [x \in DOMAIN d \ {k} |-> d[x]]

EmptyDict == [x \in {} |-> 0]

----------------------------------------------------------------------------
(* Pure helpers *)

\* datetime.datetime.fromtimestamp(t).date(), as a day number.
date(t) == t \div SecondsPerDay

\* `import datetime` binds the global name to the module; the later
\* `from datetime import datetime, timedelta` rebinds it to the class, and the
\* class has no attribute `datetime`: the expression
\* datetime.datetime.fromtimestamp(..) then raises AttributeError.
fromtimestamp_raises == datetime_name = "class"

\* str(n) for a small integer.
Digit(n) == CASE n = 0 -> "0" [] n = 1 -> "1" [] n = 2 -> "2" [] n = 3 -> "3"
              [] n = 4 -> "4" [] n = 5 -> "5" [] n = 6 -> "6" [] n = 7 -> "7"
              [] n = 8 -> "8" [] OTHER -> "9"

str(n) == IF n < 0 THEN "-" \o Digit(-n) ELSE Digit(n)

\* The four tracker dictionaries as one value.
Tracker ==
    [ last_watering_times |-> last_watering_times,
      daily_cycles        |-> daily_cycles,
      last_cycle_reset    |-> last_cycle_reset,
      manual_override     |-> manual_override ]

\* get_device_profile: the device's row, else the built-in defaults.
get_device_profile(device_id) ==
    IF device_id \in DOMAIN watering_profiles
    THEN watering_profiles[device_id]
    ELSE DefaultProfile

\* A midnight reset that also restarts the wicking wait.
midnight_reset_restarting_wait(T, device_id, current_time) ==
    IF date(current_time) # date(T.last_cycle_reset[device_id])
    THEN [ T EXCEPT !.daily_cycles = DictSet(@, device_id, 0),
                    !.manual_override = DictSet(@, device_id, FALSE),
                    !.last_cycle_reset = DictSet(@, device_id, current_time),
                    !.last_watering_times = DictSet(@, device_id, current_time) ]
    ELSE T

\* A midnight reset that also forgets when the device was last watered.
midnight_reset_forgetting_watering(T, device_id, current_time) ==
    IF date(current_time) # date(T.last_cycle_reset[device_id])
    THEN [ T EXCEPT !.daily_cycles = DictSet(@, device_id, 0),
                    !.manual_override = DictSet(@, device_id, FALSE),
                    !.last_cycle_reset = DictSet(@, device_id, current_time),
                    !.last_watering_times = DictSet(@, device_id, 0) ]
    ELSE T

\* can_water_device, "Reset daily cycles and manual override at midnight".
midnight_reset(T, device_id, current_time) ==
    IF date(current_time) # date(T.last_cycle_reset[device_id])
    THEN [ T EXCEPT !.daily_cycles = DictSet(@, device_id, 0),
                    !.manual_override = DictSet(@, device_id, FALSE),
                    !.last_cycle_reset = DictSet(@, device_id, current_time) ]
    ELSE T

\* can_water_device, "Check if we're about to exceed reservoir limits":
\* water_used_today = cycles * (watering_duration / 60) >= max_watering_per_day,
\* compared after multiplying both sides by 60 (the float product compares
\* with a whole cap as the exact one does while cycles < 15).
limit_reached(profile, cycles) ==
    /\ Truthy(profile.max_watering_per_day)
    /\ cycles * profile.watering_duration >= profile.max_watering_per_day[1] * 60

\* can_water_device, the value of its last return statement.
timing_rules_allow(profile, time_since_last_water, cycles) ==
    /\ time_since_last_water >= profile.wicking_wait_time
    /\ cycles < profile.max_daily_cycles

\* can_water_device on tracker T: whether it raised, what it returned and
\* the tracker it leaves behind.
can_water_device(T, device_id, current_time) ==
    LET profile == get_device_profile(device_id)
        \* Initialize tracking for new devices
        lwt == IF device_id \in DOMAIN T.last_watering_times
               THEN T.last_watering_times
               ELSE DictSet(T.last_watering_times, device_id, 0)
        dc  == IF device_id \in DOMAIN T.daily_cycles
               THEN T.daily_cycles
               ELSE DictSet(T.daily_cycles, device_id, 0)
        lcr == IF device_id \in DOMAIN T.last_cycle_reset
               THEN T.last_cycle_reset
               ELSE DictSet(T.last_cycle_reset, device_id, current_time)
        mo  == IF device_id \in DOMAIN T.manual_override
               THEN T.manual_override
               ELSE DictSet(T.manual_override, device_id, FALSE)
        T1  == [ last_watering_times |-> lwt, daily_cycles |-> dc,
                 last_cycle_reset |-> lcr, manual_override |-> mo ]
        T2  == midnight_reset(T1, device_id, current_time)
        time_since_last_water == current_time - T2.last_watering_times[device_id]
        cycles == T2.daily_cycles[device_id]
    IN  IF fromtimestamp_raises
        THEN [ raised |-> TRUE, result |-> FALSE, T |-> T1 ]
        ELSE [ raised |-> FALSE,
               result |-> /\ ~limit_reached(profile, cycles)
                          /\ timing_rules_allow(profile, time_since_last_water, cycles),
               T |-> T2 ]

\* A control_valve_internal that queues a close whatever the state.
control_valve_internal_closing(commands, device_id, state) ==
    DictSet(commands, device_id, "valve:0")

\* control_valve_internal: the command queued for the device.
control_valve_internal(commands, device_id, state) ==
    DictSet(commands, device_id, "valve:" \o str(state))

\* The low branch with a strict comparison.
low_branch_strict(moisture, rule) == moisture < rule.low_threshold

\* check_automation_rules, `if moisture <= rule['low_threshold']`.
low_branch(moisture, rule) == moisture <= rule.low_threshold

\* The high branch with a strict comparison.
high_branch_strict(moisture, rule) == moisture > rule.high_threshold

\* check_automation_rules, `elif moisture >= rule['high_threshold']`.
high_branch(moisture, rule) == moisture >= rule.high_threshold

\* A rule test that takes any stored rule for an active one.
active_rule_ignoring_enabled(rules, device_id) == device_id \in DOMAIN rules

\* check_automation_rules, `if rule and rule['enabled']`: the device has a
\* row in automation_rules and its enabled column is not 0.
active_rule(rules, device_id) ==
    /\ device_id \in DOMAIN rules
    /\ rules[device_id].enabled # 0

\* check_automation_rules on tracker T: the line it prints last, the tracker
\* it leaves, the valve state it commands (NoValue: none) and whether it
\* starts a turn_off_valve thread.
check_automation_rules(T, device_id, moisture) ==
    LET rule == automation_rules[device_id]
        quiet(line) == [ printed |-> line, T |-> T, state |-> NoValue, spawn |-> FALSE ]
    IN  IF device_id \in DOMAIN T.manual_override /\ T.manual_override[device_id]
        THEN quiet("Manual override is active - skipping automation")
        ELSE IF ~active_rule(automation_rules, device_id)
        THEN quiet("No active automation rule found for this device")
        ELSE IF low_branch(moisture, rule)
        THEN LET cw == can_water_device(T, device_id, now)
             IN  IF cw.raised
                 THEN [ printed |-> "Error in automation", T |-> cw.T,
                        state |-> NoValue, spawn |-> FALSE ]
                 ELSE IF cw.result
                 THEN [ printed |-> "Starting watering cycle...", T |-> cw.T,
                        state |-> <<1>>, spawn |-> TRUE ]
                 ELSE [ printed |-> "Cannot water due to timing rules:", T |-> cw.T,
                        state |-> NoValue, spawn |-> FALSE ]
        ELSE IF high_branch(moisture, rule)
        THEN [ printed |-> "Turning valve OFF", T |-> T,
               state |-> <<0>>, spawn |-> FALSE ]
        ELSE quiet("within normal range")

----------------------------------------------------------------------------
(* Request bodies *)

\* A JSON scalar of a request body: a number, a string or null.
Number(n) == [ kind |-> "number", num |-> n, text |-> "" ]

String(t) == [ kind |-> "string", num |-> 0, text |-> t ]

Null == [ kind |-> "null", num |-> 0, text |-> "" ]

\* The strings that float() and int() parse, with their values.
Literals == ("0" :> 0) @@ ("1" :> 1) @@ ("70" :> 70)

\* A float() that takes what it cannot convert for 0.
float_defaulting_to_zero(x) ==
    CASE x.kind = "number" -> [ raised |-> FALSE, value |-> x.num ]
      [] x.kind = "string" /\ x.text \in DOMAIN Literals
                           -> [ raised |-> FALSE, value |-> Literals[x.text] ]
      [] OTHER             -> [ raised |-> FALSE, value |-> 0 ]

\* float(x) and int(x) on a JSON scalar: a number is taken as it is, a
\* string is parsed and raises ValueError when it is no literal, None raises
\* TypeError.
float(x) ==
    CASE x.kind = "number" -> [ raised |-> FALSE, value |-> x.num ]
      [] x.kind = "string" /\ x.text \in DOMAIN Literals
                           -> [ raised |-> FALSE, value |-> Literals[x.text] ]
      [] OTHER             -> [ raised |-> TRUE, value |-> 0 ]

int(x) ==
    CASE x.kind = "number" -> [ raised |-> FALSE, value |-> x.num ]
      [] x.kind = "string" /\ x.text \in DOMAIN Literals
                           -> [ raised |-> FALSE, value |-> Literals[x.text] ]
      [] OTHER             -> [ raised |-> TRUE, value |-> 0 ]

\* `not data or 'k' not in data ...`: the body is missing, empty or lacks
\* one of the keys.
invalid_data_format(data, keys) == ~(keys \subseteq DOMAIN data)

\* The body of a well-formed posting of a reading.
sensor_data(device_id, moisture) ==
    [ k \in {"device_id", "moisture"} |->
        IF k = "device_id" THEN String(device_id) ELSE Number(moisture) ]

\* The body of a well-formed manual valve command.
valve_data(device_id, state) ==
    [ k \in {"device_id", "state"} |->
        IF k = "device_id" THEN String(device_id) ELSE Number(state) ]

----------------------------------------------------------------------------
(* Observation of a step *)

\* The handlers that answer an HTTP request.
HttpOps == {"receive_sensor_data", "control_valve", "get_commands",
            "set_automation_rules"}

\* What a step leaves to observe: the handler, the device, the last line
\* printed (or the error returned), the valve state commanded, the HTTP
\* status returned (0: the step answers no request), the JSON body of the
\* request and whether the reading was written to moisture_data.
Reply(op, device_id, printed, state, status, data, stored) ==
    [ op |-> op, device_id |-> device_id, printed |-> printed, state |-> state,
      status |-> status, data |-> data, stored |-> stored ]

\* A step that ran to its `return jsonify({'status': 'success'}), 200`, or
\* that answers no request.
Step(op, device_id, printed, state) ==
    Reply(op, device_id, printed, state, IF op \in HttpOps THEN 200 ELSE 0,
          EmptyDict, FALSE)

NoHistory ==
    [ opened |-> 0, closed |-> 0, counted |-> 0,
      last_open |-> NoValue ]

\* Name of the handler that evaluates the rules, for Step.op.
EvalOps == {"receive_sensor_data", "automation_worker"}

\* A receive_sensor_data that reports a failure of the engine as its own.
status_reporting_engine_failure(r) ==
    IF r.printed = "Error in automation" THEN 500 ELSE 200

\* receive_sensor_data after check_automation_rules has returned with result
\* r: check_automation_rules catches every exception itself, and the handler
\* returns success.
status_after_evaluation(r) == 200

\* The effect of one check_automation_rules call with result r, made by the
\* handler op for the request body data.
Evaluate(op, device_id, r, data) ==
    LET profile == get_device_profile(device_id)
        thread  == [ device_id |-> device_id, pc |-> "sleep", start |-> now,
                     wake |-> now + profile.watering_duration, cycles |-> 0 ]
    IN  \* the model explores at most MaxThreads timer threads at a time
        /\ r.spawn => BagCardinality(threads) < MaxThreads
        /\ last_watering_times' = r.T.last_watering_times
        /\ daily_cycles' = r.T.daily_cycles
        /\ last_cycle_reset' = r.T.last_cycle_reset
        /\ manual_override' = r.T.manual_override
        /\ device_commands' =
              IF r.state = NoValue THEN device_commands
              ELSE control_valve_internal(device_commands, device_id, r.state[1])
        /\ threads' = IF r.spawn THEN threads (+) SetToBag({thread}) ELSE threads
        /\ step' = [ Step(op, device_id, r.printed, r.state)
                        EXCEPT !.status = IF op = "receive_sensor_data"
                                          THEN status_after_evaluation(r) ELSE 0,
                               !.data = data,
                               !.stored = (op = "receive_sensor_data") ]
        /\ history' =
              IF r.spawn
              THEN [ history EXCEPT ![device_id].opened = @ + 1,
                                    ![device_id].last_open = <<now>> ]
              ELSE history

----------------------------------------------------------------------------
(* Handlers *)

\* receive_sensor_data, "Allow immediate watering": the last watering time
\* given to a device seen for the first time.
first_last_watering_time(current_time) == current_time - DEFAULT_WICKING_WAIT_TIME

\* A request that is answered with an error and changes nothing.
Rejected(op, device_id, printed, status, data) ==
    /\ step' = Reply(op, device_id, printed, NoValue, status, data, FALSE)
    /\ UNCHANGED <<now, datetime_name, flight, store, tracker, device_commands,
                   threads, history>>

\* POST /api/sensor-data with the JSON body data; write_ok: the INSERT into
\* moisture_data and its commit succeed.
receive_sensor_data(data, write_ok) ==
    LET op == "receive_sensor_data"
        device_id == data["device_id"].text
        moisture == float(data["moisture"])
        fresh == device_id \notin DOMAIN last_watering_times
        T == IF fresh
             THEN [ Tracker EXCEPT
                      !.last_watering_times =
                          DictSet(@, device_id, first_last_watering_time(now)),
                      !.daily_cycles = DictSet(@, device_id, 0),
                      !.last_cycle_reset = DictSet(@, device_id, now) ]
             ELSE Tracker
    IN  IF invalid_data_format(data, {"device_id", "moisture"})
        THEN Rejected(op, "", "Invalid data format", 400, data)
        ELSE IF moisture.raised
        THEN Rejected(op, device_id, "Error in receive_sensor_data", 500, data)
        ELSE IF ~write_ok
        THEN /\ last_watering_times' = T.last_watering_times
             /\ daily_cycles' = T.daily_cycles
             /\ last_cycle_reset' = T.last_cycle_reset
             /\ step' = Reply(op, device_id, "Error in receive_sensor_data",
                              NoValue, 500, data, FALSE)
             /\ UNCHANGED <<now, datetime_name, flight, store, manual_override,
                            device_commands, threads, history>>
        ELSE /\ moisture_data' = DictSet(moisture_data, device_id, moisture.value)
             /\ Evaluate(op, device_id,
                         check_automation_rules(T, device_id, moisture.value),
                         data)
             /\ UNCHANGED <<now, datetime_name, flight, watering_profiles, automation_rules>>

\* One device of one sweep of automation_worker: the latest stored reading
\* is evaluated again.
automation_worker(device_id) ==
    /\ device_id \in DOMAIN moisture_data
    /\ Evaluate("automation_worker", device_id,
                check_automation_rules(Tracker, device_id, moisture_data[device_id]),
                EmptyDict)
    /\ UNCHANGED <<now, datetime_name, flight, store>>

\* POST /api/valve/control with the JSON body data.
control_valve(data) ==
    LET op == "control_valve"
        device_id == data["device_id"].text
        state == int(data["state"])
    IN  IF invalid_data_format(data, {"device_id", "state"})
        THEN Rejected(op, "", "Invalid data format", 400, data)
        ELSE IF state.raised
        THEN Rejected(op, device_id, "invalid literal for int()", 500, data)
        ELSE /\ device_commands' =
                   control_valve_internal(device_commands, device_id, state.value)
             /\ step' = [ Step(op, device_id, "", <<state.value>>)
                             EXCEPT !.data = data ]
             /\ UNCHANGED <<now, datetime_name, flight, store, tracker, threads, history>>

\* GET /api/commands/<device_id>
get_commands(device_id) ==
    /\ device_commands' = IF device_id \in DOMAIN device_commands
                          THEN DictDel(device_commands, device_id)
                          ELSE device_commands
    /\ step' = Step("get_commands", device_id,
                    IF device_id \in DOMAIN device_commands
                    THEN device_commands[device_id] ELSE "None",
                    NoValue)
    /\ UNCHANGED <<now, datetime_name, flight, store, tracker, threads, history>>

\* POST /api/automation
set_automation_rules(device_id, rule) ==
    /\ automation_rules' = DictSet(automation_rules, device_id, rule)
    /\ step' = Step("set_automation_rules", device_id, "", NoValue)
    /\ UNCHANGED <<now, datetime_name, flight, watering_profiles, moisture_data,
                   tracker, device_commands, threads, history>>

\* One call can_water_device(device_id, time.time()): the tracker is left as
\* the call leaves it and the step shows what the call returned, or the
\* exception it raised.
can_water(device_id) ==
    LET cw == can_water_device(Tracker, device_id, now)
    IN  /\ last_watering_times' = cw.T.last_watering_times
        /\ daily_cycles' = cw.T.daily_cycles
        /\ last_cycle_reset' = cw.T.last_cycle_reset
        /\ manual_override' = cw.T.manual_override
        /\ step' = Step("can_water_device", device_id,
                        IF cw.raised THEN "AttributeError"
                        ELSE IF cw.result THEN "True" ELSE "False",
                        NoValue)
        /\ UNCHANGED <<now, datetime_name, flight, store, device_commands,
                       threads, history>>

----------------------------------------------------------------------------
(* The timer thread of one watering cycle *)

Replace(th, new) == (threads (-) SetToBag({th})) (+) SetToBag({new})

\* A turn_off_valve that ends after the close command, without the call of
\* update_watering_state.
turn_off_valve_without_update(th) ==
    /\ th.pc = "sleep"
    /\ now >= th.wake
    /\ device_commands' = control_valve_internal(device_commands, th.device_id, 0)
    /\ threads' = threads (-) SetToBag({th})
    /\ step' = Step("turn_off_valve", th.device_id,
                    "Watering cycle complete", <<0>>)
    /\ history' = [ history EXCEPT ![th.device_id].closed = @ + 1 ]
    /\ UNCHANGED <<now, datetime_name, flight, store, tracker>>

\* A turn_off_valve that leaves a command that is still pending in place.
turn_off_valve_keeping_pending(th) ==
    /\ th.pc = "sleep"
    /\ now >= th.wake
    /\ device_commands' =
          IF th.device_id \in DOMAIN device_commands THEN device_commands
          ELSE control_valve_internal(device_commands, th.device_id, 0)
    /\ threads' = Replace(th, [th EXCEPT !.pc = "update"])
    /\ step' = Step("turn_off_valve", th.device_id,
                    "Watering cycle complete", <<0>>)
    /\ history' = [ history EXCEPT ![th.device_id].closed = @ + 1 ]
    /\ UNCHANGED <<now, datetime_name, flight, store, tracker>>

\* turn_off_valve once time.sleep(watering_duration) has returned: the close
\* command.
turn_off_valve(th) ==
    /\ th.pc = "sleep"
    /\ now >= th.wake
    /\ device_commands' = control_valve_internal(device_commands, th.device_id, 0)
    /\ threads' = Replace(th, [th EXCEPT !.pc = "update"])
    /\ step' = Step("turn_off_valve", th.device_id,
                    "Watering cycle complete", <<0>>)
    /\ history' = [ history EXCEPT ![th.device_id].closed = @ + 1 ]
    /\ UNCHANGED <<now, datetime_name, flight, store, tracker>>

\* turn_off_valve when the INSERT into valve_actions of its
\* control_valve_internal raises: control_valve_internal catches the
\* exception and prints it, no command is queued, and turn_off_valve goes on
\* to update_watering_state.
turn_off_valve_failing(th) ==
    /\ th.pc = "sleep"
    /\ now >= th.wake
    /\ threads' = Replace(th, [th EXCEPT !.pc = "update"])
    /\ step' = Step("turn_off_valve", th.device_id,
                    "Error controlling valve", NoValue)
    /\ UNCHANGED <<now, datetime_name, flight, store, tracker, device_commands,
                   history>>

\* update_watering_state: last_watering_times[device_id] = current_time, and
\* the read half of daily_cycles[device_id] += 1.
update_watering_state(th) ==
    /\ th.pc = "update"
    /\ last_watering_times' = DictSet(last_watering_times, th.device_id, now)
    /\ threads' = Replace(th, [th EXCEPT !.pc = "store",
                                         !.cycles = daily_cycles[th.device_id]])
    /\ step' = Step("update_watering_state", th.device_id, "", NoValue)
    /\ UNCHANGED <<now, datetime_name, flight, store, daily_cycles, last_cycle_reset,
                   manual_override, device_commands, history>>

\* The write half of daily_cycles[device_id] += 1; the thread ends.
store_daily_cycles(th) ==
    /\ th.pc = "store"
    /\ daily_cycles' = DictSet(daily_cycles, th.device_id, th.cycles + 1)
    /\ threads' = threads (-) SetToBag({th})
    /\ step' = Step("store_daily_cycles", th.device_id, "", NoValue)
    /\ history' = [ history EXCEPT ![th.device_id].counted = @ + 1 ]
    /\ UNCHANGED <<now, datetime_name, flight, store, last_watering_times,
                   last_cycle_reset, manual_override, device_commands>>

----------------------------------------------------------------------------
(* Time *)

\* One second passes.  A thread whose sleep is over runs before the clock
\* moves on: time.sleep returns after watering_duration seconds and the two
\* calls that follow take no measurable time.
Advance ==
    /\ now < MaxTime
    /\ \A th \in BagToSet(threads) : th.pc = "sleep" /\ now < th.wake
    /\ now' = now + 1
    /\ step' = Step("time", "", "", NoValue)
    /\ UNCHANGED <<datetime_name, flight, store, tracker, device_commands,
                   threads, history>>

\* time.sleep(watering_duration) of the timer that wakes first: nothing
\* happens until its sleep is over.
time_sleep ==
    /\ \E th \in BagToSet(threads) :
          /\ th.pc = "sleep"
          /\ now < th.wake
          /\ \A o \in BagToSet(threads) : o.pc = "sleep" /\ th.wake <= o.wake
          /\ now' = th.wake
    /\ step' = Step("time", "", "", NoValue)
    /\ UNCHANGED <<datetime_name, flight, store, tracker, device_commands,
                   threads, history>>

----------------------------------------------------------------------------
(* Request handlers followed statement by statement *)

\* The request threads of the server that the model follows at once.
Callers == {"c1", "c2"}

\* A thread that serves no request.
Idle == [ op |-> "", pc |-> "", device_id |-> "", profile_id |-> 0,
          is_default |-> 0, data |-> EmptyDict, profile |-> NoValue ]

\* A row of watering_profiles as the INSERT of create_watering_profile
\* writes it: its id (cursor.lastrowid; ids are given in sequence and not
\* given twice), whether the row still exists, and its columns, those of the
\* profile in one field.
Row(id, device_id, is_default, updated_at, profile) ==
    [ id |-> id, live |-> TRUE, device_id |-> device_id,
      is_default |-> is_default, updated_at |-> updated_at, profile |-> profile ]

\* What is left of a deleted row.
Deleted(id) ==
    [ id |-> id, live |-> FALSE, device_id |-> "", is_default |-> 0,
      updated_at |-> 0, profile |-> DefaultProfile ]

\* The table when the process starts: one default row for every device that
\* has a profile.
first_rows(profiles) ==
    { q \in [1 .. Cardinality(DOMAIN profiles) ->
               { Row(i, d, 1, StartTime, profiles[d]) :
                   i \in 1 .. Cardinality(DOMAIN profiles), d \in DOMAIN profiles }] :
        /\ \A i \in DOMAIN q : q[i].id = i
        /\ \A d \in DOMAIN profiles : \E i \in DOMAIN q : q[i].device_id = d }

\* A get_commands that reads the pending command and leaves it in place.
get_commands_peek(c) ==
    LET device_id == calls[c].device_id
    IN  /\ calls[c].op = "get_commands"
        /\ calls[c].pc = "pop"
        /\ calls' = [calls EXCEPT ![c] = Idle]
        /\ IF device_id \in DOMAIN device_commands
           THEN step' = Step("get_commands", device_id,
                             device_commands[device_id], NoValue)
           ELSE step' = Reply("get_commands", device_id, "KeyError", NoValue,
                              500, EmptyDict, FALSE)
        /\ UNCHANGED <<now, datetime_name, store, tracker, device_commands,
                       threads, history, profile_rows, device_profiles>>

\* get_commands, `if device_id in device_commands:` and, when it is not,
\* the `return jsonify({'command': None})`.
get_commands_test(c, device_id) ==
    /\ calls[c] = Idle
    /\ IF device_id \in DOMAIN device_commands
       THEN /\ calls' = [calls EXCEPT ![c] =
                           [Idle EXCEPT !.op = "get_commands", !.pc = "pop",
                                        !.device_id = device_id]]
            /\ step' = Step("get_commands_test", device_id, "", NoValue)
       ELSE /\ calls' = calls
            /\ step' = Step("get_commands", device_id, "None", NoValue)
    /\ UNCHANGED <<now, datetime_name, store, tracker, device_commands,
                   threads, history, profile_rows, device_profiles>>

\* get_commands, `command = device_commands.pop(device_id)` and the return
\* of the command; pop raises KeyError when another thread has emptied the
\* slot since the test, and the request is answered with status 500.
get_commands_pop(c) ==
    LET device_id == calls[c].device_id
    IN  /\ calls[c].op = "get_commands"
        /\ calls[c].pc = "pop"
        /\ calls' = [calls EXCEPT ![c] = Idle]
        /\ IF device_id \in DOMAIN device_commands
           THEN /\ device_commands' = DictDel(device_commands, device_id)
                /\ step' = Step("get_commands", device_id,
                                device_commands[device_id], NoValue)
           ELSE /\ device_commands' = device_commands
                /\ step' = Reply("get_commands", device_id, "KeyError", NoValue,
                                 500, EmptyDict, FALSE)
        /\ UNCHANGED <<now, datetime_name, store, tracker, threads, history,
                       profile_rows, device_profiles>>

----------------------------------------------------------------------------
(* The watering profiles and their cache *)

\* Python truthiness of a JSON scalar.
TruthyJson(x) ==
    \/ x.kind = "number" /\ x.num # 0
    \/ x.kind = "string" /\ x.text # ""

\* What the profile handlers leave alone.
rest == <<now, datetime_name, store, tracker, device_commands, threads, history>>

\* The rows of the device.
rows_of(rows, device_id) ==
    { rows[i] : i \in { j \in DOMAIN rows :
                          rows[j].live /\ rows[j].device_id = device_id } }

\* `SELECT * FROM watering_profiles WHERE device_id = ? AND is_default = 1`
default_rows(rows, device_id) ==
    { r \in rows_of(rows, device_id) : r.is_default = 1 }

\* `... WHERE device_id = ? ORDER BY updated_at DESC LIMIT 1`: updated_at
\* is datetime('now'), in whole seconds, and any of the rows updated in the
\* latest second may come first.
most_recent_rows(rows, device_id) ==
    { r \in rows_of(rows, device_id) :
        \A o \in rows_of(rows, device_id) : o.updated_at <= r.updated_at }

\* The rows that the two SELECTs of get_device_profile may fetch: a default
\* row, or if there is none a most recently updated row.
active_rows(rows, device_id) ==
    IF default_rows(rows, device_id) # {}
    THEN default_rows(rows, device_id)
    ELSE most_recent_rows(rows, device_id)

\* `UPDATE watering_profiles SET is_default = 0 WHERE device_id = ?`
clear_defaults(rows, device_id) ==
    [ i \in DOMAIN rows |->
        IF rows[i].live /\ rows[i].device_id = device_id
        THEN [rows[i] EXCEPT !.is_default = 0] ELSE rows[i] ]

\* The request thread c goes on with the statements at pc.
Goto(c, pc) == calls' = [calls EXCEPT ![c].pc = pc]

\* The request thread c has answered its request.
Finish(c) == calls' = [calls EXCEPT ![c] = Idle]

\* The name that create_watering_profile is given.
ProfileName == "Custom"

\* POST /api/profiles with device_id, name and is_default, up to the commit:
\* the existing defaults are unset if the new profile is the default, and
\* the row is inserted with the built-in values for the columns not given.
create_watering_profile(c, device_id, is_default) ==
    LET id == Len(profile_rows) + 1
        cleared == IF is_default # 0
                   THEN clear_defaults(profile_rows, device_id)
                   ELSE profile_rows
    IN  /\ calls[c] = Idle
        /\ Len(profile_rows) < MaxProfiles
        /\ profile_rows' =
              Append(cleared, Row(id, device_id, is_default, now,
                                  [DefaultProfile EXCEPT !.name = ProfileName]))
        /\ calls' = [calls EXCEPT ![c] =
                       [Idle EXCEPT !.op = "create_watering_profile",
                                    !.pc = "refresh", !.device_id = device_id]]
        /\ step' = Step("create_watering_profile", device_id, "", NoValue)
        /\ UNCHANGED <<device_profiles, rest>>

\* update_watering_profile, delete_watering_profile and set_default_profile,
\* the SELECT of the row by its id that comes before their transaction:
\* Profile not found, or the device_id (and for the delete the is_default)
\* of the row, kept in locals.
select_profile(c, op, profile_id, data) ==
    LET found == profile_id \in DOMAIN profile_rows /\ profile_rows[profile_id].live
        row == profile_rows[profile_id]
    IN  /\ calls[c] = Idle
        /\ IF found
           THEN /\ calls' = [calls EXCEPT ![c] =
                               [Idle EXCEPT !.op = op, !.pc = "write",
                                            !.device_id = row.device_id,
                                            !.profile_id = profile_id,
                                            !.is_default =
                                                IF op = "delete_watering_profile"
                                                THEN row.is_default ELSE 0,
                                            !.data = data]]
                /\ step' = Step("select_profile", row.device_id, "", NoValue)
           ELSE /\ calls' = calls
                /\ step' = Reply(op, "", "Profile not found", NoValue, 404,
                                 data, FALSE)
        /\ UNCHANGED <<profile_rows, device_profiles, rest>>

\* PUT /api/profiles/<id>, its transaction: the defaults of the device are
\* unset if the body sets is_default to a true value, then the columns of
\* the body and updated_at are written to the row with the id, if it is
\* still there.
update_watering_profile(c) ==
    LET call == calls[c]
        data == call.data
        cleared == IF "is_default" \in DOMAIN data /\ TruthyJson(data["is_default"])
                   THEN clear_defaults(profile_rows, call.device_id)
                   ELSE profile_rows
        row == cleared[call.profile_id]
        written == [ row EXCEPT
                       !.is_default = IF "is_default" \in DOMAIN data
                                      THEN data["is_default"].num ELSE @,
                       !.profile.name = IF "name" \in DOMAIN data
                                        THEN data["name"].text ELSE @,
                       !.updated_at = now ]
    IN  /\ call.op = "update_watering_profile"
        /\ call.pc = "write"
        /\ profile_rows' = [cleared EXCEPT ![call.profile_id] =
                                IF row.live THEN written ELSE row]
        /\ Goto(c, "refresh")
        /\ step' = Step("update_watering_profile", call.device_id, "", NoValue)
        /\ UNCHANGED <<device_profiles, rest>>

\* DELETE /api/profiles/<id>, its transaction: the row is deleted and, if
\* the SELECT before the transaction found it to be the default, a most
\* recently updated row of the device is made the default.
delete_watering_profile(c) ==
    LET call == calls[c]
        deleted == [profile_rows EXCEPT ![call.profile_id] = Deleted(call.profile_id)]
        heirs == most_recent_rows(deleted, call.device_id)
    IN  /\ call.op = "delete_watering_profile"
        /\ call.pc = "write"
        /\ IF call.is_default # 0 /\ heirs # {}
           THEN \E new_default \in heirs :
                   profile_rows' = [deleted EXCEPT ![new_default.id].is_default = 1]
           ELSE profile_rows' = deleted
        /\ Goto(c, "refresh")
        /\ step' = Step("delete_watering_profile", call.device_id, "", NoValue)
        /\ UNCHANGED <<device_profiles, rest>>

\* POST /api/profiles/<id>/set-default, its transaction: the defaults of
\* the device are unset and the row with the id, if it is still there, is
\* made the default.
set_default_profile(c) ==
    LET call == calls[c]
        cleared == clear_defaults(profile_rows, call.device_id)
    IN  /\ call.op = "set_default_profile"
        /\ call.pc = "write"
        /\ profile_rows' = [cleared EXCEPT ![call.profile_id].is_default =
                                IF cleared[call.profile_id].live THEN 1 ELSE @]
        /\ Goto(c, "refresh")
        /\ step' = Step("set_default_profile", call.device_id, "", NoValue)
        /\ UNCHANGED <<device_profiles, rest>>

\* refresh_device_profile, called by the four handlers after their commit:
\* the cached profile of the device is removed; get_device_profile follows.
refresh_device_profile(c) ==
    LET device_id == calls[c].device_id
    IN  /\ calls[c].pc = "refresh"
        /\ device_profiles' = IF device_id \in DOMAIN device_profiles
                              THEN DictDel(device_profiles, device_id)
                              ELSE device_profiles
        /\ Goto(c, "get")
        /\ step' = Step("refresh_device_profile", device_id, "", NoValue)
        /\ UNCHANGED <<profile_rows, rest>>

\* get_device_profile up to the close of its connection, called by an
\* evaluation (a thread that serves nothing yet) or by
\* refresh_device_profile: the cached profile is returned if there is one;
\* else the active row is fetched, and the built-in profile is returned if
\* there is none.
get_device_profile_select(c, device_id) ==
    LET call == calls[c]
        op == IF call = Idle THEN "get_device_profile" ELSE call.op
    IN  /\ \/ call = Idle
           \/ call.pc = "get" /\ call.device_id = device_id
        /\ IF device_id \in DOMAIN device_profiles
              \/ active_rows(profile_rows, device_id) = {}
           THEN Finish(c)
           ELSE \E row \in active_rows(profile_rows, device_id) :
                   calls' = [calls EXCEPT ![c] =
                               [call EXCEPT !.op = op, !.pc = "cache",
                                            !.device_id = device_id,
                                            !.profile = <<row>>]]
        /\ step' = Step(op, device_id, "", NoValue)
        /\ UNCHANGED <<profile_rows, device_profiles, rest>>

\* get_device_profile, "Cache the profile": the row fetched is stored in
\* device_profiles and returned.
get_device_profile_cache(c) ==
    LET call == calls[c]
    IN  /\ call.pc = "cache"
        /\ device_profiles' = DictSet(device_profiles, call.device_id, call.profile[1])
        /\ Finish(c)
        /\ step' = Step(call.op, call.device_id, "", NoValue)
        /\ UNCHANGED <<profile_rows, rest>>

Dicts(V) == UNION { [K -> V] : K \in SUBSET Devices }

\* What the database holds when the process starts, the dictionaries empty;
\* the profiles of the devices are among choices.
InitWith(choices) ==
    /\ now = StartTime
    /\ watering_profiles \in Dicts(choices)
    /\ automation_rules \in Dicts(RuleChoices)
    /\ moisture_data \in Dicts(Moistures)
    /\ last_watering_times = EmptyDict
    /\ daily_cycles = EmptyDict
    /\ last_cycle_reset = EmptyDict
    /\ manual_override = EmptyDict
    /\ device_commands = EmptyDict
    /\ threads = EmptyBag
    /\ step = Step("init", "", "", NoValue)
    /\ history = [d \in Devices |-> NoHistory]
    /\ profile_rows \in first_rows(watering_profiles)
    /\ device_profiles = EmptyDict
    /\ calls = [c \in Callers |-> Idle]

InitCommon == InitWith(StoredProfiles)

\* The module as imported: `from datetime import datetime` has run last.
Init == InitCommon /\ datetime_name = "class"

Requests ==
    \/ \E d \in Devices, m \in Moistures :
          receive_sensor_data(sensor_data(d, m), TRUE)
    \/ \E d \in Devices : automation_worker(d)
    \/ \E d \in Devices, s \in {0, 1} : control_valve(valve_data(d, s))
    \/ \E d \in Devices : get_commands(d)
    \/ \E d \in Devices, r \in RuleChoices : set_automation_rules(d, r)

Timers ==
    \/ \E th \in BagToSet(threads) : turn_off_valve(th)
    \/ \E th \in BagToSet(threads) : update_watering_state(th)
    \/ \E th \in BagToSet(threads) : store_daily_cycles(th)

Next == Requests \/ Advance

Spec == Init /\ [][Next]_vars

\* The same program with `datetime` naming the module, as `import datetime`
\* binds it and as can_water_device uses it: the date computation succeeds
\* and watering cycles run.  Both bindings are explored.
InitCycle == InitCommon /\ datetime_name \in {"class", "module"}

NextCycle == Requests \/ Timers \/ Advance

SpecCycle == InitCycle /\ [][NextCycle]_vars

\* Watering cycles run and time passes: the operating system schedules a
\* thread whose sleep is over, and the clock does not stop.
SpecCycleFair == SpecCycle /\ WF_vars(Timers) /\ WF_vars(Advance)

\* The bodies a client may post to /api/sensor-data: any of the two keys
\* may be missing, and the moisture may be a number, a numeric or other
\* string, or null.
SensorBodies ==
    { [ k \in K |-> IF k = "device_id" THEN String(d) ELSE m ] :
        K \in SUBSET {"device_id", "moisture"}, d \in Devices,
        m \in {Number(20), String("70"), String("abc"), Null} }

\* The bodies a client may post to /api/valve/control.
ValveBodies ==
    { [ k \in K |-> IF k = "device_id" THEN String(d) ELSE v ] :
        K \in SUBSET {"device_id", "state"}, d \in Devices,
        v \in {Number(0), Number(1), Number(2), String("abc")} }

\* Requests with any body, and postings whose write fails.
Bodies ==
    \/ \E data \in SensorBodies, write_ok \in BOOLEAN :
          receive_sensor_data(data, write_ok)
    \/ \E data \in ValveBodies : control_valve(data)

\* No reading is stored yet; the device has no rule or an enabled one.
InitBoundary ==
    /\ InitCycle
    /\ moisture_data = EmptyDict
    /\ \A d \in DOMAIN automation_rules :
          /\ automation_rules[d].enabled = 1
          /\ automation_rules[d].low_threshold < automation_rules[d].high_threshold

NextBoundary ==
    \/ Bodies
    \/ \E d \in Devices : get_commands(d)
    \/ Timers
    \/ Advance

\* The program at its HTTP boundary: well-formed and malformed requests, a
\* database that may refuse the write of a reading, watering cycles and the
\* polling device.
SpecBoundary == InitBoundary /\ [][NextBoundary]_vars

\* The polls of the device, statement by statement.
Polls ==
    \/ \E c \in Callers, d \in Devices : get_commands_test(c, d)
    \/ \E c \in Callers : get_commands_pop(c)

NextPoll ==
    \/ \E d \in Devices, m \in Moistures :
          receive_sensor_data(sensor_data(d, m), TRUE)
    \/ \E d \in Devices, s \in {0, 1} : control_valve(valve_data(d, s))
    \/ Polls

\* The command slot under concurrent requests: postings and manual commands
\* issue commands while two threads serve polls of the device.
SpecPoll == Init /\ [][NextPoll]_vars

\* The bodies of PUT /api/profiles/<id>: the profile is made the default,
\* or it is given its name again.
UpdateBodies ==
    { [ k \in {"is_default"} |-> Number(1) ],
      [ k \in {"name"} |-> String(ProfileName) ] }

ProfileIds == 1 .. MaxProfiles

\* The profile requests of two threads, statement by statement.
Profiles ==
    \/ \E c \in Callers, d \in Devices, is_default \in {0, 1} :
          create_watering_profile(c, d, is_default)
    \/ \E c \in Callers, id \in ProfileIds, data \in UpdateBodies :
          select_profile(c, "update_watering_profile", id, data)
    \/ \E c \in Callers, id \in ProfileIds :
          select_profile(c, "delete_watering_profile", id, EmptyDict)
    \/ \E c \in Callers, id \in ProfileIds :
          select_profile(c, "set_default_profile", id, EmptyDict)
    \/ \E c \in Callers : update_watering_profile(c)
    \/ \E c \in Callers : delete_watering_profile(c)
    \/ \E c \in Callers : set_default_profile(c)
    \/ \E c \in Callers : refresh_device_profile(c)
    \/ \E c \in Callers, d \in Devices : get_device_profile_select(c, d)
    \/ \E c \in Callers : get_device_profile_cache(c)

\* No profile, rule or reading is stored yet.
InitProfiles ==
    /\ Init
    /\ watering_profiles = EmptyDict
    /\ automation_rules = EmptyDict
    /\ moisture_data = EmptyDict

\* A second passes between two profile requests.
AdvanceProfiles == now < StartTime + ProfileTicks /\ Advance

NextProfiles == Profiles \/ AdvanceProfiles

\* The profile store and the profile cache under concurrent requests.
SpecProfiles == InitProfiles /\ [][NextProfiles]_vars

\* Profiles with a daily cap of valve-open minutes: none, 0 and 1 minute,
\* with a duration that divides the minute and one that does not.
CapProfiles ==
    { [ name |-> "Capped", watering_duration |-> dur, wicking_wait_time |-> 2,
        max_daily_cycles |-> 3, max_watering_per_day |-> cap ] :
        dur \in {30, 45}, cap \in {NoValue, <<0>>, <<1>>} }

\* The tracker entries of a device when can_water_device is called.  With
\* `datetime` naming the class no cycle has ever completed, and the entries
\* are those that receive_sensor_data gave the device.
InitCanWater ==
    /\ now = StartTime
    /\ datetime_name \in {"class", "module"}
    /\ watering_profiles \in [Devices -> CapProfiles]
    /\ automation_rules = EmptyDict
    /\ moisture_data = EmptyDict
    /\ last_watering_times \in
          [Devices -> {first_last_watering_time(StartTime),
                       StartTime - 2, StartTime - 1, StartTime}]
    /\ daily_cycles \in [Devices -> 0 .. 3]
    /\ datetime_name = "class"
          => \A d \in Devices :
                /\ last_watering_times[d] = first_last_watering_time(StartTime)
                /\ daily_cycles[d] = 0
    /\ last_cycle_reset = [d \in Devices |-> StartTime]
    /\ manual_override \in {EmptyDict, [d \in Devices |-> FALSE]}
    /\ device_commands = EmptyDict
    /\ threads = EmptyBag
    /\ step = Step("init", "", "", NoValue)
    /\ history = [d \in Devices |-> NoHistory]
    /\ profile_rows \in first_rows(watering_profiles)
    /\ device_profiles = EmptyDict
    /\ calls = [c \in Callers |-> Idle]

NextCanWater ==
    \/ \E d \in Devices : can_water(d)
    \/ Advance

\* can_water_device as a function of the profile, the tracker and the time.
SpecCanWater == InitCanWater /\ [][NextCanWater]_vars

NextFailure ==
    \/ Requests
    \/ Timers
    \/ \E th \in BagToSet(threads) : turn_off_valve_failing(th)
    \/ Advance

\* Watering cycles with a database that may refuse the INSERT into
\* valve_actions when a timer issues its close command.
SpecFailure == InitCycle /\ [][NextFailure]_vars

\* Profiles with a daily cap of one minute of valve-open time, no wicking
\* wait, and a duration that divides the minute or does not.
MinuteProfiles ==
    { [ name |-> "Capped", watering_duration |-> dur, wicking_wait_time |-> 0,
        max_daily_cycles |-> 4, max_watering_per_day |-> <<1>> ] :
        dur \in {30, 45} }

\* The device has a capped profile and an enabled rule.
InitCap ==
    /\ InitWith(MinuteProfiles)
    /\ datetime_name \in {"class", "module"}
    /\ DOMAIN watering_profiles = Devices
    /\ \A d \in Devices : active_rule(automation_rules, d)

\* The readings and sweeps of a device come when none of its cycles is in
\* progress; a cycle runs for its watering_duration.
NextCap ==
    \/ \E d \in Devices, m \in Moistures :
          /\ threads = EmptyBag
          /\ receive_sensor_data(sensor_data(d, m), TRUE)
    \/ \E d \in Devices : threads = EmptyBag /\ automation_worker(d)
    \/ Timers
    \/ time_sleep
    \/ Advance

\* One watering cycle at a time under a profile with a daily cap.
SpecCap == InitCap /\ [][NextCap]_vars

----------------------------------------------------------------------------
(* Vocabulary of the claims *)

\* The automation rule of d is present and enabled.
Enabled(d) == d \in DOMAIN automation_rules /\ automation_rules[d].enabled # 0

\* The step just taken was an evaluation of the rules of d.
Evaluated(d) == step.op \in EvalOps /\ step.device_id = d

\* The step being taken is an evaluation of the rules of d.
Evaluating(d) == step'.op \in EvalOps /\ step'.device_id = d

Override(d) == d \in DOMAIN manual_override /\ manual_override[d]

\* The timer threads of d whose pc is in pcs, counted with multiplicity.
ThreadsAt(d, pcs) ==
    LET S == { th \in BagToSet(threads) : th.device_id = d /\ th.pc \in pcs }
    IN  BagCardinality([th \in S |-> threads[th]])

----------------------------------------------------------------------------
(* C1 *)

----------------------------------------------------------------------------
(* C3 *)

\* C3: a manual valve command for a device leaves its manual override
\* active, and with the override active the evaluation of a reading at or
\* below the low threshold commands nothing.
C3_ManualCommandSuppressesAutomation ==
    /\ [][\A d \in Devices :
            (step'.op = "control_valve" /\ step'.device_id = d)
            => (d \in DOMAIN manual_override' /\ manual_override'[d])]_vars
    /\ [][\A d \in Devices :
            ( /\ Evaluating(d)
              /\ Override(d)
              /\ Enabled(d)
              /\ moisture_data'[d] <= automation_rules[d].low_threshold )
            => step'.state = NoValue]_vars

----------------------------------------------------------------------------
(* C4 *)

----------------------------------------------------------------------------
(* C5 *)

C5_Accounting ==
    /\ \A d \in Devices :
        /\ history[d].opened = history[d].closed + ThreadsAt(d, {"sleep"})
        /\ history[d].closed = history[d].counted + ThreadsAt(d, {"update", "store"})
    /\ \A th \in BagToSet(threads) : th.pc # "sleep" => th.wake <= now

\* The threads whose sleep ends within the time explored.
DueThreads == { th \in BagToSet(threads) : th.wake <= MaxTime }

----------------------------------------------------------------------------
(* C6 *)

\* C6: an evaluation of an enabled rule at a time whose date is later than
\* the date of the last reset leaves the counter at 0 and the last reset on
\* the new date, whatever the moisture.
C6_FirstEvaluationOfDayResets ==
    [][\A d \in DOMAIN last_cycle_reset :
          ( /\ Evaluating(d)
            /\ Enabled(d)
            /\ date(last_cycle_reset[d]) < date(now) )
          => /\ daily_cycles'[d] = 0
             /\ date(last_cycle_reset'[d]) = date(now)]_vars

----------------------------------------------------------------------------
(* C7 *)

\* C7: the first evaluation on a later day clears the override and, when
\* the reading is at or below the low threshold and the wait has passed and
\* the profile allows a cycle, commands the valve open.
C7_AutomationResumesOnNewDay ==
    [][\A d \in DOMAIN last_cycle_reset \cap DOMAIN last_watering_times :
          ( /\ Evaluating(d)
            /\ Enabled(d)
            /\ date(last_cycle_reset[d]) < date(now)
            /\ moisture_data'[d] <= automation_rules[d].low_threshold
            /\ now - last_watering_times[d] >= get_device_profile(d).wicking_wait_time
            /\ get_device_profile(d).max_daily_cycles >= 1 )
          => /\ step'.state = <<1>>
             /\ d \in DOMAIN manual_override'
             /\ manual_override'[d] = FALSE]_vars

----------------------------------------------------------------------------
(* C8 *)

\* C8: with an enabled rule whose low threshold is below its high threshold
\* and no override, an evaluation of a moisture at or above the high
\* threshold commands the valve closed: the pending command is valve:0.
C8_HighMoistureCloses ==
    \A d \in Devices :
        ( /\ Evaluated(d)
          /\ Enabled(d)
          /\ automation_rules[d].low_threshold < automation_rules[d].high_threshold
          /\ ~Override(d)
          /\ moisture_data[d] >= automation_rules[d].high_threshold )
        => /\ step.state = <<0>>
           /\ d \in DOMAIN device_commands
           /\ device_commands[d] = "valve:0"

\* A high reading was evaluated while a timer of the device was armed.
C8_Witness ==
    \E d \in Devices :
        /\ Evaluated(d)
        /\ Enabled(d)
        /\ moisture_data[d] >= automation_rules[d].high_threshold
        /\ step.state = <<0>>
        /\ ThreadsAt(d, {"sleep"}) >= 1

----------------------------------------------------------------------------
(* C9 *)

\* The evaluation of d being taken found the low branch and was refused by
\* can_water_device.
Refusing(d) == Evaluating(d) /\ step'.printed = "Cannot water due to timing rules:"

\* Evaluating the same reading again now is refused again and changes nothing.
C9_RefusedAgain ==
    \A d \in Devices :
        (Evaluated(d) /\ step.printed = "Cannot water due to timing rules:")
        => check_automation_rules(Tracker, d, moisture_data[d])
             = [ printed |-> "Cannot water due to timing rules:", T |-> Tracker,
                 state |-> NoValue, spawn |-> FALSE ]

----------------------------------------------------------------------------
(* C10 *)

\* C10: the first reading of a device the tracker does not know yet, at or
\* below the low threshold of an enabled rule, commands the valve open for
\* every profile that allows at least one cycle a day.
C10_FirstLowReadingOpens ==
    [][\A d \in Devices :
          ( /\ step'.op = "receive_sensor_data"
            /\ step'.device_id = d
            /\ d \notin DOMAIN last_watering_times
            /\ Enabled(d)
            /\ moisture_data'[d] <= automation_rules[d].low_threshold
            /\ get_device_profile(d).max_daily_cycles >= 1 )
          => /\ step'.state = <<1>>
             /\ device_commands'[d] = "valve:1"]_vars

----------------------------------------------------------------------------
(* C11 *)

----------------------------------------------------------------------------
(* C12 *)

\* The device has an automation rule and the rule is disabled.
Disabled(d) == d \in DOMAIN automation_rules /\ automation_rules[d].enabled = 0

\* C12: with a disabled rule, check_automation_rules on any moisture returns
\* without a valve command, without a timer and with the tracker as it found
\* it; the handler step that evaluates leaves the pending command and the
\* timers as they were, and the tracker too (a first posting of a device
\* aside, whose tracker entries receive_sensor_data creates before it
\* evaluates).
C12_DisabledRuleIsNoOp ==
    /\ [](\A d \in Devices, m \in Moistures :
            Disabled(d)
            => LET r == check_automation_rules(Tracker, d, m)
               IN  r.T = Tracker /\ r.state = NoValue /\ ~r.spawn)
    /\ [][\A d \in Devices :
            (Evaluating(d) /\ Disabled(d))
            => /\ step'.state = NoValue
               /\ device_commands' = device_commands
               /\ threads' = threads
               /\ (step'.op = "automation_worker" \/ d \in DOMAIN last_watering_times)
                    => tracker' = tracker]_vars

\* A low reading was evaluated under a disabled rule while a cycle was
\* running and its open command was still pending.
C12_Witness ==
    \E d \in Devices :
        /\ Evaluated(d)
        /\ Disabled(d)
        /\ moisture_data[d] <= automation_rules[d].low_threshold
        /\ ThreadsAt(d, {"sleep"}) >= 1
        /\ d \in DOMAIN device_commands
        /\ device_commands[d] = "valve:1"

----------------------------------------------------------------------------
(* C13 *)

\* C13: the pending command of a device always carries the state 0 or 1,
\* and a step that issues a command for a device leaves exactly that command
\* pending, whatever was pending before (one slot, last write wins).
C13_OnePendingCommandInZeroOne ==
    /\ [](\A d \in DOMAIN device_commands :
            device_commands[d] \in {"valve:0", "valve:1"})
    /\ [][\A d \in Devices :
            (step'.device_id = d /\ step'.state # NoValue)
            => /\ d \in DOMAIN device_commands'
               /\ device_commands'[d] = "valve:" \o str(step'.state[1])]_vars

----------------------------------------------------------------------------
(* C15 *)

\* The JSON scalar denotes no number.
NotNumeric(x) ==
    \/ x.kind = "null"
    \/ x.kind = "string" /\ x.text \notin {"0", "1", "70"}

\* The posting lacks device_id or moisture, or its moisture is not numeric.
Malformed(data) ==
    \/ "device_id" \notin DOMAIN data
    \/ "moisture" \notin DOMAIN data
    \/ NotNumeric(data["moisture"])

\* C15: a posting that lacks device_id or moisture, or whose moisture is not
\* numeric, is answered with an error status and changes nothing: no tracker
\* entry, no stored reading, no evaluation, no command, no timer.
C15_MalformedPostingRejected ==
    [][(step'.op = "receive_sensor_data" /\ Malformed(step'.data))
          => /\ step'.status \in {400, 500}
             /\ ~step'.stored
             /\ step'.state = NoValue
             /\ tracker' = tracker
             /\ store' = store
             /\ device_commands' = device_commands
             /\ threads' = threads]_vars

\* The first posting of a device had a moisture that is not numeric and was
\* answered with an error; the tracker knows no device.
C15_Witness ==
    /\ step.op = "receive_sensor_data"
    /\ {"device_id", "moisture"} \subseteq DOMAIN step.data
    /\ NotNumeric(step.data["moisture"])
    /\ step.status = 500
    /\ last_watering_times = EmptyDict
    /\ moisture_data = EmptyDict

----------------------------------------------------------------------------
(* C16 *)

\* C16: a well-formed posting is answered with success exactly when its
\* reading was written, and with an error otherwise; in particular a posting
\* whose evaluation failed inside the engine is answered with success.
C16_OutcomeIsTheWrite ==
    [][(step'.op = "receive_sensor_data" /\ ~Malformed(step'.data))
          => /\ step'.status = IF step'.stored THEN 200 ELSE 500
             /\ step'.printed = "Error in automation" => step'.status = 200]_vars

\* A well-formed posting was written, its evaluation failed inside the
\* engine, and the posting was answered with success.
C16_Witness ==
    /\ step.op = "receive_sensor_data"
    /\ ~Malformed(step.data)
    /\ step.stored
    /\ step.printed = "Error in automation"
    /\ step.status = 200

----------------------------------------------------------------------------
(* C17 *)

\* C17: a manual valve command with a device and an integer state s leaves
\* "valve:s" pending for the device and leaves the last watering times, the
\* cycle counters and the timers as they were; a request without a state is
\* answered with an error and changes nothing.
C17_ManualCommandFrame ==
    [][step'.op = "control_valve"
          => /\ ( /\ {"device_id", "state"} \subseteq DOMAIN step'.data
                  /\ step'.data["state"].kind = "number" )
                => LET d == step'.data["device_id"].text
                       s == step'.data["state"].num
                   IN  /\ step'.status = 200
                       /\ d \in DOMAIN device_commands'
                       /\ device_commands'[d] = "valve:" \o str(s)
                       /\ last_watering_times' = last_watering_times
                       /\ daily_cycles' = daily_cycles
                       /\ threads' = threads
             /\ "state" \notin DOMAIN step'.data
                => /\ step'.status = 400
                   /\ tracker' = tracker
                   /\ device_commands' = device_commands
                   /\ threads' = threads]_vars

\* A manual close was commanded while a timer of the device was asleep and
\* the open command of the cycle had not been collected.
C17_Witness ==
    \E d \in Devices :
        /\ step.op = "control_valve"
        /\ step.device_id = d
        /\ step.state = <<0>>
        /\ ThreadsAt(d, {"sleep"}) >= 1
        /\ d \in DOMAIN device_commands
        /\ device_commands[d] = "valve:0"

----------------------------------------------------------------------------
(* C14 *)

\* The step being taken answers a poll of d with a command.
Delivering(d) ==
    /\ step'.op = "get_commands"
    /\ step'.device_id = d
    /\ step'.status = 200
    /\ step'.printed # "None"

----------------------------------------------------------------------------
(* C18 *)

\* C18: a device without a stored profile is evaluated with the built-in
\* profile, and a device without a stored rule is evaluated with the
\* built-in rule (enabled, low 30, high 70): the evaluation is not skipped
\* for want of a rule, and a reading at or above 70 commands the valve
\* closed.
C18_DefaultsWhenNothingStored ==
    /\ [](\A d \in Devices \ DOMAIN watering_profiles :
            get_device_profile(d) = DefaultProfile)
    /\ [][\A d \in Devices :
            (Evaluating(d) /\ d \notin DOMAIN automation_rules)
            => /\ step'.printed # "No active automation rule found for this device"
               /\ moisture_data'[d] >= DefaultRule.high_threshold
                    => /\ step'.state = <<0>>
                       /\ d \in DOMAIN device_commands'
                       /\ device_commands'[d] = "valve:0"]_vars

----------------------------------------------------------------------------
(* C19 *)

\* No request is being served.
Quiescent == \A c \in Callers : calls[c] = Idle

\* What get_device_profile may return for d when called now.
Returned(d) ==
    IF d \in DOMAIN device_profiles THEN {device_profiles[d].profile}
    ELSE IF active_rows(profile_rows, d) = {} THEN {DefaultProfile}
    ELSE { r.profile : r \in active_rows(profile_rows, d) }

\* C19, the first half: no device has two rows marked default.
C19_AtMostOneDefault ==
    \A d \in Devices : Cardinality(default_rows(profile_rows, d)) <= 1

\* C19: no device has two rows marked default; and when no request is being
\* served, the profile that get_device_profile returns for a device is that
\* of its default row if it has one, else that of a most recently updated
\* row, else the built-in profile.
C19_OneDefaultAndActiveProfile ==
    /\ C19_AtMostOneDefault
    /\ \A d \in Devices :
          Quiescent =>
            Returned(d) \subseteq
              IF rows_of(profile_rows, d) = {} THEN {DefaultProfile}
              ELSE { r.profile : r \in active_rows(profile_rows, d) }

----------------------------------------------------------------------------
(* C20 *)

\* C20: when every profile request has completed, a profile cached for a
\* device is an active row of the device as the store holds it now, so that
\* every later get_device_profile returns the stored active profile.
C20_CacheFollowsStore ==
    \A d \in DOMAIN device_profiles :
        Quiescent => device_profiles[d] \in active_rows(profile_rows, d)

----------------------------------------------------------------------------
(* C21 *)

\* The three conditions of the watering decision, on the tracker as the
\* call of can_water_device left it.
Allowed(d) ==
    LET profile == get_device_profile(d)
        cap == profile.max_watering_per_day
    IN  /\ now - last_watering_times[d] >= profile.wicking_wait_time
        /\ daily_cycles[d] < profile.max_daily_cycles
        /\ cap # NoValue
             => daily_cycles[d] * profile.watering_duration < cap[1] * 60

----------------------------------------------------------------------------
(* C22 *)

\* What an evaluation prints last when it has taken the low branch: the
\* cycle was started, or refused, or can_water_device raised.
LowBranchLines ==
    {"Starting watering cycle...", "Cannot water due to timing rules:",
     "Error in automation"}

\* C22: an evaluation under an enabled rule takes the low branch exactly
\* when moisture <= low_threshold, else the high branch (the close) exactly
\* when moisture >= high_threshold, else neither and commands nothing;
\* whatever the tracker, the timers and the time.  With low_threshold >=
\* high_threshold a moisture that meets both takes the low branch and is
\* not answered with the close.
C22_BranchByMoistureAndThresholds ==
    [][\A d \in Devices :
          (Evaluating(d) /\ Enabled(d) /\ ~Override(d))
          => LET moisture == moisture_data'[d]
                 rule == automation_rules[d]
             IN  /\ moisture <= rule.low_threshold
                      => /\ step'.printed \in LowBranchLines
                         /\ step'.state # <<0>>
                 /\ (moisture > rule.low_threshold
                        /\ moisture >= rule.high_threshold)
                      => /\ step'.printed = "Turning valve OFF"
                         /\ step'.state = <<0>>
                 /\ (moisture > rule.low_threshold
                        /\ moisture < rule.high_threshold)
                      => /\ step'.printed = "within normal range"
                         /\ step'.state = NoValue]_vars

\* Under a rule with low_threshold >= high_threshold a moisture between the
\* two was evaluated, and the valve was commanded open.
C22_Witness ==
    \E d \in Devices :
        /\ Evaluated(d)
        /\ Enabled(d)
        /\ automation_rules[d].low_threshold >= automation_rules[d].high_threshold
        /\ moisture_data[d] < automation_rules[d].low_threshold
        /\ moisture_data[d] > automation_rules[d].high_threshold
        /\ step.printed = "Starting watering cycle..."
        /\ step.state = <<1>>

----------------------------------------------------------------------------
(* C23 *)

----------------------------------------------------------------------------
(* C24 *)

\* A timer of d sleeps before the step and still sleeps after it: a cycle
\* of d that was opened before the step has not reached its close.
CycleInProgress(d) ==
    \E th \in BagToSet(threads) :
        /\ th.device_id = d
        /\ th.pc = "sleep"
        /\ th \in BagToSet(threads')
        /\ threads'[th] >= threads[th]

----------------------------------------------------------------------------
(* C25 *)

----------------------------------------------------------------------------
(* C26 *)

----------------------------------------------------------------------------
(* C27 *)

----------------------------------------------------------------------------
(* C28 *)

----------------------------------------------------------------------------
(* C29 *)

\* C29: can_water_device never raises: an evaluation under an enabled rule
\* of a moisture at or below the low threshold ends in the decision to open
\* or not to open, never in the exception handler of check_automation_rules.
C29_LowBranchReachesDecision ==
    [][\A d \in Devices :
          ( /\ Evaluating(d)
            /\ Enabled(d)
            /\ ~Override(d)
            /\ moisture_data'[d] <= automation_rules[d].low_threshold )
          => /\ ~can_water_device(Tracker, d, now).raised
             /\ step'.printed \in {"Starting watering cycle...",
                                   "Cannot water due to timing rules:"}]_vars

----------------------------------------------------------------------------
(* C30 *)

====
